---- MODULE Spec2Model ----
(***************************************************************************)
(* Model of src/app.py, the Streamlit dashboard of restaurant-tax records. *)
(* One script run goes load_data -> column validation -> sidebar widgets   *)
(* -> filter -> KPI metrics -> six charts -> detail table with CSV export. *)
(* A widget change re-runs the script from the top with the dataset taken  *)
(* from the st.cache_data cache.                                           *)
(*                                                                         *)
(* Values.  A text cell is a string; the missing value of a text column    *)
(* is "nan" (pandas.read_csv turns an empty cell and the text "nan" into   *)
(* NaN, so no loaded text equals it).  A numeric cell is << >> when it is  *)
(* missing and <<v>> otherwise.  Amounts are in units of 10^7 rupiah, so   *)
(* that x/1e9 with two decimals is exact.  NAMA_WP is a sequence of        *)
(* characters, << >> when missing.                                         *)
(***************************************************************************)
EXTENDS Integers, Sequences, FiniteSets, TLC

VARIABLES
    csv,                  \* the remote CSV file (environment)
    buildStable,          \* whether this build's default sort is numpy's scalar quicksort
    cache,                \* st.cache_data entry of load_data
    widgets,              \* whether the sidebar widgets hold session state
    selected_segmentasi,  \* multiselect value
    selected_kategori,    \* multiselect value
    sort_by,              \* selectbox value
    pc,                   \* position of the current script run
    df,                   \* script variable df (load_data's result)
    df0,                  \* history: the dataset as load_data first returned it
    alerts,               \* st.error / st.warning messages of this run, up to the table
    df_filtered,          \* script variable df_filtered
    kpi,                  \* the five KPI tiles
    chart,                \* status of each of the six charts
    kategori_omset,       \* Chart 2's aggregate
    top_wp,               \* Chart 5's ranking
    tabel                 \* the detail table and the CSV export

vars == <<csv, buildStable, cache, widgets, selected_segmentasi, selected_kategori,
          sort_by, pc, df, df0, alerts, df_filtered, kpi, chart, kategori_omset,
          top_wp, tabel>>

----------------------------------------------------------------------------
(* Bounds of the model *)

MaxRows == 2
MaxTopRows == 11
MaxPattern == 4
MaxCsvRows == 26
MaxNamePattern == 2

----------------------------------------------------------------------------
(* Generic helpers *)

Range(s) == {s[i] : i \in 1..Len(s)}

RECURSIVE SumSeq(_)
SumSeq(s) == IF s = << >> THEN 0 ELSE Head(s) + SumSeq(Tail(s))

NaNText == "nan"
IsNa(x) == x = << >>
Val(x) == x[1]

----------------------------------------------------------------------------
(* The dataset *)

required_cols == {"NAMA_WP", "Kategori", "Segmentasi", "Total_Omset_12Bulan",
                  "Total_Pajak_12Bulan", "Efektivitas_Pajak"}
numeric_cols == {"Total_Omset_12Bulan", "Total_Pajak_12Bulan", "Efektivitas_Pajak"}
AllCols == required_cols \cup {"Label_Risiko"}

\* What the script holds when there is no DataFrame (None, or not yet assigned).
NoDf == [ok |-> FALSE, cols |-> {}, rows |-> << >>]

\* pd.to_numeric(errors='coerce') on one cell as read_csv left it.
ToNumeric(c) == IF c.t = "num" THEN <<c.v>> ELSE << >>

\* A numeric column that is absent from the file has no cell to convert.
Coerce(cols, col, c) == IF col \in numeric_cols /\ col \in cols THEN ToNumeric(c) ELSE << >>

\* load_data's try block: read_csv, then the numeric conversion of each
\* numeric column that is present.  Rows get the RangeIndex 1..n.
LoadRows(src) ==
    [i \in 1..Len(src.rows) |->
        LET r == src.rows[i] IN
        [idx   |-> i,
         nama  |-> r.nama,
         kat   |-> r.kat,
         seg   |-> r.seg,
         omset |-> Coerce(src.cols, "Total_Omset_12Bulan", r.omset),
         pajak |-> Coerce(src.cols, "Total_Pajak_12Bulan", r.pajak),
         ef    |-> Coerce(src.cols, "Efektivitas_Pajak", r.ef),
         label |-> r.label]]

\* load_data: the DataFrame, or None after st.error when read_csv raised.
load_data(src) ==
    IF src.ok THEN [ok |-> TRUE, cols |-> src.cols, rows |-> LoadRows(src)]
    ELSE NoDf

missing_cols(d) == required_cols \ d.cols

\* sorted(df[col].dropna().unique().tolist()) for the two filter columns.
all_segmentasi(d) ==
    IF "Segmentasi" \in d.cols THEN {r.seg : r \in Range(d.rows)} \ {NaNText} ELSE {}
all_kategori(d) ==
    IF "Kategori" \in d.cols THEN {r.kat : r \in Range(d.rows)} \ {NaNText} ELSE {}

\* Series.isin(selection) & Series.isin(selection) as a row mask.
MaskOr(r, segs, kats) == r.seg \in segs \/ r.kat \in kats
Mask(r, segs, kats) == r.seg \in segs /\ r.kat \in kats

RECURSIVE SelectRows(_, _, _)
SelectRows(rows, segs, kats) ==
    IF rows = << >> THEN << >>
    ELSE IF Mask(Head(rows), segs, kats)
         THEN <<Head(rows)>> \o SelectRows(Tail(rows), segs, kats)
         ELSE SelectRows(Tail(rows), segs, kats)

\* The "Apply filter" step: the mask when both selections are non-empty,
\* the whole dataset otherwise.
ApplyFilter(d, segs, kats) ==
    IF segs # {} /\ kats # {} THEN SelectRows(d.rows, segs, kats) ELSE d.rows

\* What the filter step leaves in df: both branches end in .copy(), so the
\* cached dataset is untouched.
DfAfterFilterAliased(d, view) == [d EXCEPT !.rows = view]
DfAfterFilter(d, view) == d

----------------------------------------------------------------------------
(* Sorting as pandas does it *)

Reverse(s) == [i \in 1..Len(s) |-> s[Len(s) + 1 - i]]

\* A sort key is << >> (NaN) or <<num, den>>, the rational num/den, den > 0.
KeyLess(a, b) == a[1] * b[2] < b[1] * a[2]

RECURSIVE InsertAsc(_, _)
InsertAsc(sorted, p) ==
    IF sorted = << >> THEN <<p>>
    ELSE IF KeyLess(p.k, Head(sorted).k) THEN <<p>> \o sorted
         ELSE <<Head(sorted)>> \o InsertAsc(Tail(sorted), p)

\* A stable ascending sort of [k, x] pairs (numpy's mergesort).
RECURSIVE StableAsc(_)
StableAsc(s) ==
    IF s = << >> THEN << >>
    ELSE InsertAsc(StableAsc(SubSeq(s, 1, Len(s) - 1)), s[Len(s)])

\* INTP_SWAP: the sequence a with the elements at i and j exchanged.
Swap(a, i, j) ==
    [k \in 1..Len(a) |-> IF k = i THEN a[j] ELSE IF k = j THEN a[i] ELSE a[k]]

\* do { ++pi; } while (LT(v[*pi], vp)) and do { --pj; } while (LT(vp, v[*pj])):
\* where each scan stops, from its first position.
RECURSIVE ScanUp(_, _, _)
ScanUp(a, i, vp) == IF KeyLess(a[i].k, vp) THEN ScanUp(a, i + 1, vp) ELSE i

RECURSIVE ScanDown(_, _, _)
ScanDown(a, j, vp) == IF KeyLess(vp, a[j].k) THEN ScanDown(a, j - 1, vp) ELSE j

\* The partition loop: scan from both ends, swap, until the scans meet.
RECURSIVE PartitionLoop(_, _, _, _)
PartitionLoop(a, pi, pj, vp) ==
    LET i == ScanUp(a, pi + 1, vp)
        j == ScanDown(a, pj - 1, vp)
    IN  IF i >= j THEN [arr |-> a, at |-> i]
        ELSE PartitionLoop(Swap(a, i, j), i, j, vp)

\* One partition of a[pl..pr]: the median of three goes to pr - 1 as the
\* pivot, the loop runs, and the pivot is put in its place, at.
Partition(a, pl, pr) ==
    LET pm == pl + ((pr - pl) \div 2)
        a1 == IF KeyLess(a[pm].k, a[pl].k) THEN Swap(a, pm, pl) ELSE a
        a2 == IF KeyLess(a1[pr].k, a1[pm].k) THEN Swap(a1, pr, pm) ELSE a1
        a3 == IF KeyLess(a2[pm].k, a2[pl].k) THEN Swap(a2, pm, pl) ELSE a2
        vp == a3[pm].k
        lp == PartitionLoop(Swap(a3, pm, pr - 1), pl, pr - 1, vp)
    IN  [arr |-> Swap(lp.arr, lp.at, pr - 1), at |-> lp.at]

SmallQuicksort == 16

\* numpy's quicksort on a[pl..pr]: a range of more than SmallQuicksort + 1
\* elements is partitioned and both sides are sorted; a shorter range is
\* sorted by insertion, which keeps equal keys in order.  (The fall-back to
\* heapsort at recursion depth 2 * log2(n) is not reached at these lengths.)
RECURSIVE QuickSort(_, _, _)
QuickSort(a, pl, pr) ==
    IF pr - pl > SmallQuicksort
    THEN LET p == Partition(a, pl, pr)
             left == QuickSort(p.arr, pl, p.at - 1)
         IN  IF Len(left) = 0 THEN left ELSE QuickSort(left, p.at + 1, pr)
    ELSE SubSeq(a, 1, pl - 1) \o StableAsc(SubSeq(a, pl, pr)) \o SubSeq(a, pr + 1, Len(a))

\* argsort(kind='quicksort'), pandas' default: ascending.  On a build with
\* numpy's scalar quicksort (buildStable) it is the algorithm above, stable
\* up to SmallQuicksort + 1 elements; a build that dispatches argsort to a
\* vectorised sort leaves equal keys in another order, here reversed.
ArgSort(s, stable) == IF stable THEN QuickSort(s, 1, Len(s)) ELSE StableAsc(Reverse(s))

RECURSIVE NonNa(_)
NonNa(s) ==
    IF s = << >> THEN << >>
    ELSE IF IsNa(Head(s).k) THEN NonNa(Tail(s)) ELSE <<Head(s)>> \o NonNa(Tail(s))

RECURSIVE OnlyNa(_)
OnlyNa(s) ==
    IF s = << >> THEN << >>
    ELSE IF IsNa(Head(s).k) THEN <<Head(s)>> \o OnlyNa(Tail(s)) ELSE OnlyNa(Tail(s))

\* nargsort behind sort_values(kind default, na_position='last'): a
\* descending sort reverses, sorts ascending and reverses again; the NaN
\* rows follow in their original order.
SortValues(s, ascending, stable) ==
    LET nn == IF ascending THEN NonNa(s) ELSE Reverse(NonNa(s))
        st == ArgSort(nn, stable)
    IN  (IF ascending THEN st ELSE Reverse(st)) \o OnlyNa(s)

Take(s, n) == SubSeq(s, 1, IF n < Len(s) THEN n ELSE Len(s))

\* Series.nlargest(n, keep='first'): at n >= len the "slow method",
\* sort_values(ascending=False).head(n); otherwise the n largest non-NaN
\* values by a mergesort of the negated values, then the NaN rows, cut to n.
NSmallestWrong(s, n, stable) == Take(SortValues(s, TRUE, stable), n)
NLargest(s, n, stable) ==
    IF n >= Len(s) THEN Take(SortValues(s, FALSE, stable), n)
    ELSE Take(Take(Reverse(StableAsc(Reverse(NonNa(s)))), n) \o OnlyNa(s), n)

----------------------------------------------------------------------------
(* Aggregations *)

RECURSIVE Present(_)
Present(cells) ==
    IF cells = << >> THEN << >>
    ELSE IF IsNa(Head(cells)) THEN Present(Tail(cells))
         ELSE <<Val(Head(cells))>> \o Present(Tail(cells))

Column(view, col) ==
    [i \in 1..Len(view) |->
        IF col = "Total_Omset_12Bulan" THEN view[i].omset
        ELSE IF col = "Total_Pajak_12Bulan" THEN view[i].pajak
        ELSE view[i].ef]

\* Series.sum(): NaN skipped, 0 for no values.
Sum(view, col) == SumSeq(Present(Column(view, col)))

\* Series.mean(): NaN skipped; float NaN when no value is left.
MeanOfCells(cells) ==
    LET p == Present(cells) IN
    IF p = << >> THEN [nan |-> TRUE, sum |-> 0, n |-> 0]
    ELSE [nan |-> FALSE, sum |-> SumSeq(p), n |-> Len(p)]
Mean(view, col) == MeanOfCells(Column(view, col))

\* Series.count(): the non-NaN cells.
Count(cells) == Len(Present(cells))

TopN == 10
PageRows == 25
TargetEfektivitas == 10

\* avg_efektivitas >= 10 (False for NaN) and the tile's text.
DeltaColor(m) ==
    IF ~m.nan /\ m.sum >= TargetEfektivitas * m.n THEN "normal" ELSE "inverse"
AvgText(m) == IF m.nan THEN "nan%" ELSE "number%"

NoKpi == [status |-> "notrun", total_wp |-> 0, persen |-> << >>, total_omset |-> 0,
          total_pajak |-> 0, avg |-> [nan |-> TRUE, sum |-> 0, n |-> 0],
          avg_text |-> "", delta_color |-> "", risiko |-> << >>]

RisikoTinggi(view) ==
    Cardinality({i \in 1..Len(view) : view[i].label = "Risiko Tinggi"})

\* The five KPI tiles.  total_wp / len(df) raises ZeroDivisionError for a
\* dataset without rows; nothing catches it, so the script run ends there.
KpiMetrics(d, view) ==
    IF Len(d.rows) = 0
    THEN [NoKpi EXCEPT !.status = "crashed", !.total_wp = Len(view)]
    ELSE [status      |-> "ok",
          total_wp    |-> Len(view),
          persen      |-> <<Len(view) * 100, Len(d.rows)>>,
          total_omset |-> Sum(view, "Total_Omset_12Bulan"),
          total_pajak |-> Sum(view, "Total_Pajak_12Bulan"),
          avg         |-> Mean(view, "Efektivitas_Pajak"),
          avg_text    |-> AvgText(Mean(view, "Efektivitas_Pajak")),
          delta_color |-> DeltaColor(Mean(view, "Efektivitas_Pajak")),
          risiko      |-> IF "Label_Risiko" \in d.cols
                          THEN <<RisikoTinggi(view),
                                 IF Len(view) > 0 THEN RisikoTinggi(view) * 100 ELSE 0,
                                 IF Len(view) > 0 THEN Len(view) ELSE 1>>
                          ELSE << >>]

\* The category names in sorted order (groupby sorts its keys).
KatOrder == <<"Hotel", "Kafe">>

RECURSIVE RowsOfKat(_, _)
RowsOfKat(view, k) ==
    IF view = << >> THEN << >>
    ELSE IF Head(view).kat = k THEN <<Head(view)>> \o RowsOfKat(Tail(view), k)
         ELSE RowsOfKat(Tail(view), k)

\* groupby('Kategori')[omset].agg(['mean', 'count']): one row per non-NaN
\* category of the view (NaN keys are dropped), in key order.
RECURSIVE GroupAgg(_, _)
GroupAgg(view, keys) ==
    IF keys = << >> THEN << >>
    ELSE LET g == RowsOfKat(view, Head(keys))
             m == Mean(g, "Total_Omset_12Bulan")
         IN  (IF g = << >> THEN << >>
              ELSE <<[k |-> IF m.nan THEN << >> ELSE <<m.sum, m.n>>,
                      x |-> [Kategori   |-> Head(keys),
                             Omset_Rata |-> m,
                             Jumlah_WP  |-> Count(Column(g, "Total_Omset_12Bulan"))]]>>)
             \o GroupAgg(view, Tail(keys))

Items(s) == [i \in 1..Len(s) |-> s[i].x]

\* Chart 2's table: the groups sorted by Omset_Miliar, descending.
KategoriOmset(view, stable) == Items(SortValues(GroupAgg(view, KatOrder), FALSE, stable))

PajakKeyed(rows) ==
    [i \in 1..Len(rows) |->
        [k |-> IF IsNa(rows[i].pajak) THEN << >> ELSE <<Val(rows[i].pajak), 1>>,
         x |-> rows[i]]]

Min(a, b) == IF a < b THEN a ELSE b

\* Chart 5's table: nlargest(min(10, len), 'Total_Pajak_12Bulan'), then
\* sort_values('Pajak_Miliar', ascending=True) for the horizontal bars.
TopSelection(view, stable) ==
    NLargest(PajakKeyed(view), Min(TopN, Len(view)), stable)
TopColumns(r) == [idx |-> r.idx, nama |-> r.nama, pajak |-> r.pajak]
Project(s) == [i \in 1..Len(s) |-> TopColumns(s[i].x)]
TopWp(view, stable) == Project(SortValues(TopSelection(view, stable), TRUE, stable))

\* px.scatter(size='Efektivitas_Pajak') raises ValueError on a NaN size; the
\* chart's except branch reports it.
ScatterFails(view) == \E i \in 1..Len(view) : IsNa(view[i].ef)

----------------------------------------------------------------------------
(* The detail table and its CSV export *)

SortOptions == {"Total_Pajak_12Bulan", "Total_Omset_12Bulan", "Efektivitas_Pajak", "NAMA_WP"}

CharCode(c) ==
    CASE c = "\n" -> 10 [] c = "\"" -> 34 [] c = "," -> 44 [] c = "a" -> 97 [] OTHER -> 98

\* Python's str comparison, by code point and then by length.
RECURSIVE LexLess(_, _)
LexLess(a, b) ==
    IF b = << >> THEN FALSE
    ELSE IF a = << >> THEN TRUE
    ELSE IF Head(a) = Head(b) THEN LexLess(Tail(a), Tail(b))
    ELSE CharCode(Head(a)) < CharCode(Head(b))

NameRank(view, nm) ==
    Cardinality({m \in {r.nama : r \in Range(view)} : m # << >> /\ LexLess(m, nm)})

SortKey(view, r, by) ==
    IF by = "NAMA_WP"
    THEN (IF r.nama = << >> THEN << >> ELSE <<NameRank(view, r.nama), 1>>)
    ELSE LET c == IF by = "Total_Pajak_12Bulan" THEN r.pajak
                  ELSE IF by = "Total_Omset_12Bulan" THEN r.omset ELSE r.ef
         IN  IF IsNa(c) THEN << >> ELSE <<Val(c), 1>>

\* df_display.sort_values(sort_by, ascending=False, na_position='last')
SortedForDisplay(view, by, stable) ==
    Items(SortValues([i \in 1..Len(view) |-> [k |-> SortKey(view, view[i], by), x |-> view[i]]],
                     FALSE, stable))

TextChars(s) ==
    CASE s = "Hotel"  -> <<"H", "o", "t", "e", "l">>
      [] s = "Kafe"   -> <<"K", "a", "f", "e">>
      [] s = "Gold"   -> <<"G", "o", "l", "d">>
      [] s = "Silver" -> <<"S", "i", "l", "v", "e", "r">>
      [] OTHER        -> << >>

DigitChar(n) == <<"0", "1", "2", "3", "4", "5", "6", "7", "8", "9">>[n + 1]

RECURSIVE Digits(_)
Digits(n) == IF n < 10 THEN <<DigitChar(n)>> ELSE Digits(n \div 10) \o <<DigitChar(n % 10)>>

\* f"Rp {x/1e9:.2f}M" if pd.notna(x) else "-"
FormatMiliar(c) ==
    IF IsNa(c) THEN <<"-">>
    ELSE <<"R", "p", " ">> \o Digits(Val(c) \div 100)
         \o <<".", DigitChar((Val(c) % 100) \div 10), DigitChar(Val(c) % 10), "M">>

\* f"{x:.2f}%" if pd.notna(x) else "-"
FormatPersen(c) ==
    IF IsNa(c) THEN <<"-">> ELSE Digits(Val(c)) \o <<".", "0", "0", "%">>

\* One row of df_display_final: the six display columns, as to_csv writes
\* them (a NaN cell as the empty field).
DisplayRow(r) ==
    <<r.nama, TextChars(r.kat), TextChars(r.seg),
      FormatMiliar(r.omset), FormatMiliar(r.pajak), FormatPersen(r.ef)>>

DisplayHeader ==
    << <<"N", "a", "m", "a", " ", "W", "P">>, <<"K", "a", "t", "e", "g", "o", "r", "i">>,
       <<"S", "e", "g", "m", "e", "n", "t", "a", "s", "i">>, <<"O", "m", "s", "e", "t">>,
       <<"P", "a", "j", "a", "k">>, <<"E", "f", "e", "k", "t", "i", "v", "i", "t", "a", "s">> >>

Special == {",", "\"", "\n"}

RECURSIVE DoubleQuotes(_)
DoubleQuotes(f) ==
    IF f = << >> THEN << >>
    ELSE (IF Head(f) = "\"" THEN <<"\"", "\"">> ELSE <<Head(f)>>) \o DoubleQuotes(Tail(f))

\* csv.writer with QUOTE_MINIMAL: a field holding the delimiter, the quote
\* character or a line break is quoted, its quotes doubled.
CsvField(f) ==
    IF Range(f) \cap Special # {} THEN <<"\"">> \o DoubleQuotes(f) \o <<"\"">> ELSE f

RECURSIVE CsvLine(_)
CsvLine(fields) ==
    IF Len(fields) = 1 THEN CsvField(fields[1]) \o <<"\n">>
    ELSE CsvField(Head(fields)) \o <<",">> \o CsvLine(Tail(fields))

RECURSIVE CsvLines(_)
CsvLines(rows) == IF rows = << >> THEN << >> ELSE CsvLine(Head(rows)) \o CsvLines(Tail(rows))

\* DataFrame.to_csv(index=False): the header line, then one line per row.
ToCsv(rows) == CsvLine(DisplayHeader) \o CsvLines(rows)

\* The rows the export is made of: all of df_display_final, where the
\* on-screen table takes head(25).
ExportRows(rows) == rows

NoTabel == [status |-> "notrun", shown |-> << >>, csv |-> << >>, offered |-> FALSE]

\* The table stage.  With Label_Risiko among the columns df_display_final
\* has seven columns when six names are assigned to .columns, which raises
\* ValueError into the stage's except branch.
TabelStage(d, view, by, stable) ==
    IF Len(view) = 0 THEN [NoTabel EXCEPT !.status = "warning"]
    ELSE IF "Label_Risiko" \in d.cols THEN [NoTabel EXCEPT !.status = "error"]
    ELSE LET rows == [i \in 1..Len(view) |->
                        DisplayRow(SortedForDisplay(view, by, stable)[i])]
         IN  [status  |-> "ok",
              shown   |-> Take(rows, PageRows),
              csv     |-> ToCsv(ExportRows(rows)),
              offered |-> TRUE]

\* Reading the export back: a CSV reader over the characters.  mode is
\* "start" (at the start of a line), "plain" (in an unquoted field),
\* "quoted" (in a quoted field) or "quote" (after a quote in a quoted field).
ReaderStart == [mode |-> "start", field |-> << >>, row |-> << >>, rows |-> << >>]

\* The reader after the character c.
ReadChar(st, c) ==
    IF st.mode = "quoted"
    THEN (IF c = "\"" THEN [st EXCEPT !.mode = "quote"]
          ELSE [st EXCEPT !.field = Append(st.field, c)])
    ELSE IF st.mode = "quote" /\ c = "\""
    THEN [st EXCEPT !.mode = "quoted", !.field = Append(st.field, c)]
    ELSE IF c = ","
    THEN [st EXCEPT !.mode = "plain", !.field = << >>, !.row = Append(st.row, st.field)]
    ELSE IF c = "\n"
    THEN [mode |-> "start", field |-> << >>, row |-> << >>,
          rows |-> Append(st.rows, Append(st.row, st.field))]
    ELSE IF c = "\"" /\ st.field = << >> /\ st.mode # "quote"
    THEN [st EXCEPT !.mode = "quoted"]
    ELSE [st EXCEPT !.mode = "plain", !.field = Append(st.field, c)]

\* The reader after the characters text[lo..hi], read in order.  The test on
\* half never succeeds; it has the first half evaluated before the second.
RECURSIVE ReadRange(_, _, _, _)
ReadRange(text, st, lo, hi) ==
    IF lo > hi THEN st
    ELSE IF lo = hi THEN ReadChar(st, text[lo])
    ELSE LET mid == (lo + hi) \div 2
             half == ReadRange(text, st, lo, mid)
         IN  IF half.mode = "" THEN half ELSE ReadRange(text, half, mid + 1, hi)

\* The rows read from the text; a last line without line break counts.
ParseCsv(text) ==
    LET st == ReadRange(text, ReaderStart, 1, Len(text))
    IN  IF st.mode = "start" THEN st.rows ELSE Append(st.rows, Append(st.row, st.field))

\* The data rows of the re-parsed export (the first line is the header).
Reparsed(text) == Tail(ParseCsv(text))

----------------------------------------------------------------------------
(* The script run *)

NoView == [assigned |-> FALSE, rows |-> << >>]
NoCharts == [i \in 1..6 |-> "notrun"]
NoCache == [filled |-> FALSE, value |-> NoDf]

\* A fresh script run: no script variable is assigned and nothing is drawn.
ResetRun ==
    /\ df' = NoDf
    /\ alerts' = {}
    /\ df_filtered' = NoView
    /\ kpi' = NoKpi
    /\ chart' = NoCharts
    /\ kategori_omset' = << >>
    /\ top_wp' = << >>
    /\ tabel' = NoTabel

\* What follows a load: st.stop() when load_data returned None.
AfterLoadNoStop(d) == "validate"
AfterLoad(d) == IF d.ok THEN "validate" ELSE "stopped"

\* df = load_data() under st.cache_data (the first call runs the function,
\* later calls return a copy of the cached value), then the None check.
LoadData ==
    /\ pc = "load"
    /\ LET d == IF cache.filled THEN cache.value ELSE load_data(csv) IN
       /\ cache' = [filled |-> TRUE, value |-> d]
       /\ df' = d
       /\ df0' = IF cache.filled THEN df0 ELSE d
       /\ alerts' = IF d.ok THEN alerts
                    ELSE alerts \cup {[kind |-> "error", text |-> "Gagal memuat data",
                                       detail |-> {csv.cause}]}
       /\ pc' = AfterLoad(d)
    /\ UNCHANGED <<csv, buildStable, widgets, selected_segmentasi, selected_kategori,
                   sort_by, df_filtered, kpi, chart, kategori_omset, top_wp, tabel>>

\* What follows the required-column validation: st.stop() when one is absent.
AfterValidate(d) == IF missing_cols(d) # {} THEN "stopped" ELSE "sidebar"

Validate ==
    /\ pc = "validate"
    /\ alerts' = IF missing_cols(df) # {}
                 THEN alerts \cup {[kind |-> "warning", text |-> "Kolom yang hilang",
                                    detail |-> missing_cols(df)]}
                 ELSE alerts
    /\ pc' = AfterValidate(df)
    /\ UNCHANGED <<csv, buildStable, cache, widgets, selected_segmentasi, selected_kategori,
                   sort_by, df, df0, df_filtered, kpi, chart, kategori_omset, top_wp, tabel>>

\* A multiselect's value: every option by default, the session's value after.
WidgetValue(hasState, value, options) == IF hasState THEN value ELSE options

\* The sidebar section: the two multiselects, then "Apply filter".
Sidebar ==
    /\ pc = "sidebar"
    /\ selected_segmentasi' = WidgetValue(widgets, selected_segmentasi, all_segmentasi(df))
    /\ selected_kategori' = WidgetValue(widgets, selected_kategori, all_kategori(df))
    /\ widgets' = TRUE
    /\ LET view == ApplyFilter(df, selected_segmentasi', selected_kategori') IN
       /\ df_filtered' = [assigned |-> TRUE, rows |-> view]
       /\ df' = DfAfterFilter(df, view)
    /\ pc' = "kpi"
    /\ UNCHANGED <<csv, buildStable, cache, sort_by, df0, alerts, kpi, chart,
                   kategori_omset, top_wp, tabel>>

\* The KPI section: its five tiles, with no try block around them.
Kpi ==
    /\ pc = "kpi"
    /\ kpi' = KpiMetrics(df, df_filtered.rows)
    /\ pc' = IF kpi'.status = "crashed" THEN "crashed" ELSE "row1"
    /\ UNCHANGED <<csv, buildStable, cache, widgets, selected_segmentasi, selected_kategori,
                   sort_by, df, df0, alerts, df_filtered, chart, kategori_omset, top_wp, tabel>>

\* A chart block: the warning branch for an empty view, else the try block,
\* whose except branch reports the error and lets the script go on.
ChartStatus(view, fails) ==
    IF Len(view) = 0 THEN "warning" ELSE IF fails THEN "error" ELSE "ok"

\* The messages of the six chart blocks: the st.error of the except branch
\* and the st.warning of the else branch.
ChartErrorText ==
    <<"Error pie chart", "Error bar chart", "Error scatter chart", "Error box chart",
      "Error top WP chart", "Error histogram">>
ChartWarningText ==
    <<"Data Segmentasi tidak tersedia", "Data kategori tidak tersedia",
      "Data scatter tidak tersedia", "Data efektivitas tidak tersedia",
      "Data top WP tidak tersedia", "Data efektivitas tidak tersedia">>

ChartAlerts(n, status) ==
    IF status = "error"
    THEN {[kind |-> "error", text |-> ChartErrorText[n], detail |-> {"ValueError"}]}
    ELSE IF status = "warning"
    THEN {[kind |-> "warning", text |-> ChartWarningText[n], detail |-> {}]}
    ELSE {}

\* One row of the page: the chart blocks m and n, one after the other.
ChartRow(at, m, mFails, n, nFails, next) ==
    /\ pc = at
    /\ chart' = [chart EXCEPT ![m] = ChartStatus(df_filtered.rows, mFails),
                              ![n] = ChartStatus(df_filtered.rows, nFails)]
    /\ alerts' = alerts \cup ChartAlerts(m, chart'[m]) \cup ChartAlerts(n, chart'[n])
    /\ pc' = next
    /\ UNCHANGED <<csv, buildStable, cache, widgets, selected_segmentasi, selected_kategori,
                   sort_by, df, df0, df_filtered, kpi, tabel>>

\* Row 1: the segment pie chart and the per-category bar chart.
Row1 ==
    /\ ChartRow("row1", 1, FALSE, 2, FALSE, "row2")
    /\ kategori_omset' = IF Len(df_filtered.rows) > 0
                         THEN KategoriOmset(df_filtered.rows, buildStable) ELSE << >>
    /\ UNCHANGED top_wp

\* Row 2: the scatter chart and the box plot.
Row2 ==
    /\ ChartRow("row2", 3, ScatterFails(df_filtered.rows), 4, FALSE, "row3")
    /\ UNCHANGED <<kategori_omset, top_wp>>

\* Row 3: the top-10 bar chart and the histogram.
Row3 ==
    /\ ChartRow("row3", 5, FALSE, 6, FALSE, "tabel")
    /\ top_wp' = IF Len(df_filtered.rows) > 0
                 THEN TopWp(df_filtered.rows, buildStable) ELSE << >>
    /\ UNCHANGED kategori_omset

\* The messages of the table section: the st.error of the except branch and
\* the st.warning of the else branch.
TabelAlerts(status) ==
    IF status = "error"
    THEN {[kind |-> "error", text |-> "Error menampilkan tabel", detail |-> {"ValueError"}]}
    ELSE IF status = "warning"
    THEN {[kind |-> "warning", text |-> "Tidak ada data yang dapat ditampilkan",
           detail |-> {}]}
    ELSE {}

\* The detail-table section.
Tabel ==
    /\ pc = "tabel"
    /\ tabel' = TabelStage(df, df_filtered.rows, sort_by, buildStable)
    /\ alerts' = alerts \cup TabelAlerts(tabel'.status)
    /\ pc' = "done"
    /\ UNCHANGED <<csv, buildStable, cache, widgets, selected_segmentasi, selected_kategori,
                   sort_by, df, df0, df_filtered, kpi, chart, kategori_omset, top_wp>>

\* The run is over (it reached the end or an uncaught exception ended it) and
\* the sidebar widgets are on the page.  A change made while the script is
\* still running restarts it the same way and reaches no other state.
WidgetsShown == widgets /\ pc \in {"done", "crashed"}

\* A changed multiselect: Streamlit stores the value and re-runs the script.
ChangeSegmentasi ==
    /\ WidgetsShown
    /\ \E s \in SUBSET all_segmentasi(cache.value) :
          /\ s # selected_segmentasi
          /\ selected_segmentasi' = s
    /\ pc' = "load"
    /\ ResetRun
    /\ UNCHANGED <<csv, buildStable, cache, widgets, selected_kategori, sort_by, df0>>

ChangeKategori ==
    /\ WidgetsShown
    /\ \E k \in SUBSET all_kategori(cache.value) :
          /\ k # selected_kategori
          /\ selected_kategori' = k
    /\ pc' = "load"
    /\ ResetRun
    /\ UNCHANGED <<csv, buildStable, cache, widgets, selected_segmentasi, sort_by, df0>>

\* The "Urutkan berdasarkan" selectbox, on the page once the table section ran.
ChangeSort ==
    /\ pc = "done"
    /\ \E b \in SortOptions :
          /\ b # sort_by
          /\ sort_by' = b
    /\ pc' = "load"
    /\ ResetRun
    /\ UNCHANGED <<csv, buildStable, cache, widgets, selected_segmentasi, selected_kategori,
                   df0>>

\* A plain re-run (the "Rerun" command) once the run is over, also after st.stop().
Refresh ==
    /\ pc \in {"done", "crashed", "stopped"}
    /\ pc' = "load"
    /\ ResetRun
    /\ UNCHANGED <<csv, buildStable, cache, widgets, selected_segmentasi, selected_kategori,
                   sort_by, df0>>

RunStep == LoadData \/ Validate \/ Sidebar \/ Kpi \/ Row1 \/ Row2 \/ Row3 \/ Tabel

Next == RunStep \/ Refresh \/ ChangeSegmentasi \/ ChangeKategori \/ ChangeSort

\* A session in which no widget is touched.
NextUntouched == RunStep \/ Refresh

----------------------------------------------------------------------------
(* The remote CSV files the model is run on *)

Num(v) == [t |-> "num", v |-> v]
NonNumeric == [t |-> "text", v |-> 0]
Blank == [t |-> "blank", v |-> 0]

\* Two kinds of row: every cell filled in, or the omset a text, the
\* effectiveness blank.
Profiles ==
    {[nama |-> <<"a">>, omset |-> Num(250), pajak |-> Num(25), ef |-> Num(10),
      label |-> "Aman"],
     [nama |-> <<"b">>, omset |-> NonNumeric, pajak |-> Num(10), ef |-> Blank,
      label |-> "Risiko Tinggi"]}

RawRow(cols, kat, seg, p) ==
    [nama  |-> p.nama,
     kat   |-> IF "Kategori" \in cols THEN kat ELSE NaNText,
     seg   |-> IF "Segmentasi" \in cols THEN seg ELSE NaNText,
     omset |-> p.omset, pajak |-> p.pajak, ef |-> p.ef,
     label |-> IF "Label_Risiko" \in cols THEN p.label ELSE NaNText]

RawRows(cols) ==
    {RawRow(cols, k, s, p) : k \in {"Hotel", "Kafe", NaNText},
                             s \in {"Gold", "Silver"}, p \in Profiles}

SeqsUpTo(S, n) == UNION {[1..m -> S] : m \in 0..n}

ColSets == {AllCols, required_cols, required_cols \ {"Kategori"},
            required_cols \ {"Segmentasi"}}

Unreachable(c) == [ok |-> FALSE, cause |-> c, cols |-> {}, rows |-> << >>]
File(cols, rows) == [ok |-> TRUE, cause |-> "", cols |-> cols, rows |-> rows]

Sources ==
    {Unreachable(c) : c \in {"network", "parse"}}
    \cup UNION {{File(cols, rows) : rows \in SeqsUpTo(RawRows(cols), MaxRows)} : cols \in ColSets}

\* The session before its first run.
Start(src, stable) ==
    /\ csv = src
    /\ buildStable = stable
    /\ cache = NoCache
    /\ widgets = FALSE
    /\ selected_segmentasi = {}
    /\ selected_kategori = {}
    /\ sort_by = "Total_Pajak_12Bulan"
    /\ pc = "load"
    /\ df = NoDf
    /\ df0 = NoDf
    /\ alerts = {}
    /\ df_filtered = NoView
    /\ kpi = NoKpi
    /\ chart = NoCharts
    /\ kategori_omset = << >>
    /\ top_wp = << >>
    /\ tabel = NoTabel

\* Sessions over the small files, on a build with numpy's scalar quicksort.
Init == \E src \in Sources : Start(src, TRUE)

Spec == Init /\ [][Next]_vars

\* Longer files for the top-10 ranking: the tax column is a pattern of up to
\* MaxPattern cells (a number or a blank) repeated over up to MaxTopRows rows.
Cycle(pat, n) == [i \in 1..n |-> pat[((i - 1) % Len(pat)) + 1]]

TopCells == {Blank, Num(10), Num(20)}

TopRow(c) ==
    [nama |-> <<"a">>, kat |-> "Kafe", seg |-> "Gold", omset |-> Num(250), pajak |-> c,
     ef |-> Num(10), label |-> NaNText]

TopSources ==
    {File(required_cols, [i \in 1..n |-> TopRow(Cycle(pat, n)[i])]) :
        pat \in SeqsUpTo(TopCells, MaxPattern) \ {<< >>}, n \in 1..MaxTopRows}

InitTop == \E src \in TopSources, stable \in BOOLEAN : Start(src, stable)

SpecTop == InitTop /\ [][NextUntouched]_vars

\* Longer files for the export: the names are a pattern of up to
\* MaxNamePattern names repeated over up to MaxCsvRows rows.  A name is
\* missing (<< >>) or holds letters, the delimiter, quotes or a line break.
CsvNames ==
    {<< >>, <<"a">>, <<",">>, <<"\"">>, <<"\n">>, <<"a", "\"">>, <<",", "\n">>}

\* The row counts tried: a few rows, and the counts around the table's page.
CsvLengths == {n \in 1..MaxCsvRows : n <= MaxNamePattern + 1 \/ n >= PageRows - 1}

CsvRow(nm) ==
    [nama |-> nm, kat |-> "Kafe", seg |-> "Gold", omset |-> Num(250), pajak |-> Num(25),
     ef |-> Blank, label |-> NaNText]

CsvSources ==
    {File(required_cols, [i \in 1..n |-> CsvRow(Cycle(pat, n)[i])]) :
        pat \in SeqsUpTo(CsvNames, MaxNamePattern) \ {<< >>}, n \in CsvLengths}

InitCsv == \E src \in CsvSources, stable \in BOOLEAN : Start(src, stable)

SpecCsv == InitCsv /\ [][NextUntouched]_vars

----------------------------------------------------------------------------
(* Claims *)

View == df_filtered.rows
RunOver == pc \in {"done", "crashed", "stopped"}

\* The indices of the rows of d that are in both selections.
Selected(d, segs, kats) ==
    {i \in 1..Len(d.rows) : d.rows[i].kat \in kats /\ d.rows[i].seg \in segs}

\* view is the rows of d with the indices in keep, in d's order.
IsSubFrame(view, d, keep) ==
    /\ {view[i].idx : i \in 1..Len(view)} = keep
    /\ Len(view) = Cardinality(keep)
    /\ \A i \in 1..Len(view) : view[i] = d.rows[view[i].idx]
    /\ \A i, j \in 1..Len(view) : i < j => view[i].idx < view[j].idx

\* C1 as claimed: for every pair of selections, empty ones included, the
\* filtered view is exactly the records whose Kategori is in
\* selected_kategori and whose Segmentasi is in selected_segmentasi.
C1_AsClaimed ==
    df_filtered.assigned =>
        IsSubFrame(View, df, Selected(df, selected_segmentasi, selected_kategori))

\* C1 as amended: with both selections non-empty the filtered view is exactly
\* the records in both selections; with either selection empty it is the
\* whole dataset.
C1_FilterConjunction ==
    df_filtered.assigned =>
        IF selected_segmentasi # {} /\ selected_kategori # {}
        THEN IsSubFrame(View, df, Selected(df, selected_segmentasi, selected_kategori))
        ELSE View = df.rows

\* A record in the selected categories is left out for its segment, and
\* another record is kept.
C1_Witness ==
    /\ pc = "done"
    /\ selected_segmentasi # {} /\ selected_kategori # {}
    /\ View # << >>
    /\ \E i \in 1..Len(df.rows) :
          df.rows[i].kat \in selected_kategori /\ df.rows[i].seg \notin selected_segmentasi

\* C2 as claimed: with every offered category and segment selected, the
\* filtered view has as many records as the dataset.
C2_IdentityFilter ==
    (/\ df_filtered.assigned
     /\ selected_segmentasi = all_segmentasi(df)
     /\ selected_kategori = all_kategori(df))
    => Len(View) = Len(df.rows)

LoadFailed == cache.filled /\ ~cache.value.ok

\* C3: after a failed load the run reports the failure with its cause and
\* stops: the filter, the KPI tiles, the charts, the table and the export are
\* never computed, in this run or in a later one.
C3_LoadFailureHalts ==
    LoadFailed =>
        /\ pc \in {"load", "stopped"}
        /\ pc = "stopped" =>
              alerts = {[kind |-> "error", text |-> "Gagal memuat data",
                         detail |-> {csv.cause}]}
        /\ ~df_filtered.assigned
        /\ ~widgets
        /\ kpi = NoKpi
        /\ chart = NoCharts
        /\ kategori_omset = << >>
        /\ top_wp = << >>
        /\ tabel = NoTabel

\* A run stopped by a load that failed on the network.
C3_Witness ==
    /\ LoadFailed
    /\ pc = "stopped"
    /\ \E a \in alerts : a.kind = "error" /\ a.detail = {"network"}

\* C4 as claimed: with Kategori or Segmentasi absent from the dataset the
\* run still produces a filtered view, and no record is excluded from it.
C4_AbsentColumnVacuous ==
    (/\ RunOver
     /\ df.ok
     /\ ~({"Kategori", "Segmentasi"} \subseteq df.cols))
    => (df_filtered.assigned /\ View = df.rows)

\* C5 as claimed: over an empty filtered view the two sums are 0 and the mean
\* is an explicit undefined result, not NaN; so is the mean of a view whose
\* Efektivitas_Pajak values are all missing.
C5_EmptyViewKpi ==
    (/\ pc = "done"
     /\ \A i \in 1..Len(View) : IsNa(View[i].ef))
    => /\ kpi.status = "ok"
       /\ View = << >> => (kpi.total_omset = 0 /\ kpi.total_pajak = 0)
       /\ ~kpi.avg.nan
       /\ kpi.avg_text # "nan%"

\* C6 as claimed: in a run that passed the column validation every derived
\* view that follows a failed one is still computed, so a run that is over
\* has computed every chart and the table.
C6_FailureIsolation ==
    (pc \in {"done", "crashed"}) =>
        /\ \A n \in 1..6 : chart[n] # "notrun"
        /\ tabel.status # "notrun"

\* C7 as claimed: the Jumlah_WP counts of kategori_omset sum to the number
\* of records of the filtered view.
C7_GroupsPartition ==
    chart[2] = "ok" =>
        SumSeq([i \in 1..Len(kategori_omset) |-> kategori_omset[i].Jumlah_WP]) = Len(View)

\* A tax cell as a rank: a missing value ranks below every number.
Rank(c) == IF IsNa(c) THEN -1 ELSE Val(c)

TopRan == chart[5] = "ok"

\* The records of top_wp are distinct records of the filtered view.
TopFromView ==
    /\ \A i \in 1..Len(top_wp) :
          \E j \in 1..Len(View) : top_wp[i] = TopColumns(View[j])
    /\ \A i, j \in 1..Len(top_wp) : i # j => top_wp[i].idx # top_wp[j].idx

LeftOut == {r \in Range(View) : \A i \in 1..Len(top_wp) : top_wp[i].idx # r.idx}

\* C8 as claimed: top_wp holds min(10, |view|) records of the view, none
\* smaller in Total_Pajak_12Bulan than a record left out, in descending
\* order of Total_Pajak_12Bulan with ties in original row order.
C8_AsClaimed ==
    TopRan =>
        /\ Len(top_wp) = Min(TopN, Len(View))
        /\ TopFromView
        /\ \A i \in 1..Len(top_wp) : \A r \in LeftOut : Rank(top_wp[i].pajak) >= Rank(r.pajak)
        /\ \A i, j \in 1..Len(top_wp) :
              i < j => \/ Rank(top_wp[i].pajak) > Rank(top_wp[j].pajak)
                       \/ /\ Rank(top_wp[i].pajak) = Rank(top_wp[j].pajak)
                          /\ top_wp[i].idx < top_wp[j].idx

\* C8 as amended: top_wp holds min(10, |view|) records of the view, none
\* smaller in Total_Pajak_12Bulan than a record left out and, at equal
\* value, the earlier rows kept; it is in ascending order of
\* Total_Pajak_12Bulan with the missing values last, and on a build with
\* numpy's scalar quicksort (stable at ten rows) equal values are in
\* original row order.
C8_TopSelection ==
    TopRan =>
        /\ Len(top_wp) = Min(TopN, Len(View))
        /\ TopFromView
        /\ \A i \in 1..Len(top_wp) : \A r \in LeftOut :
              \/ Rank(top_wp[i].pajak) > Rank(r.pajak)
              \/ /\ Rank(top_wp[i].pajak) = Rank(r.pajak)
                 /\ top_wp[i].idx < r.idx
        /\ \A i, j \in 1..Len(top_wp) :
              i < j => /\ IsNa(top_wp[i].pajak) => IsNa(top_wp[j].pajak)
                       /\ ~IsNa(top_wp[j].pajak) =>
                             Rank(top_wp[i].pajak) <= Rank(top_wp[j].pajak)
                       /\ (/\ Rank(top_wp[i].pajak) = Rank(top_wp[j].pajak)
                           /\ (buildStable \/ IsNa(top_wp[i].pajak)))
                          => top_wp[i].idx < top_wp[j].idx

\* A view of more than ten records on a build with a vectorised sort: the
\* list holds two tax values, and a record is left out that ties with a
\* kept one.
C8_Witness ==
    /\ TopRan
    /\ ~buildStable
    /\ Len(View) > TopN
    /\ \E i, j \in 1..Len(top_wp) : Rank(top_wp[i].pajak) > Rank(top_wp[j].pajak)
    /\ \E i \in 1..Len(top_wp) : \E r \in LeftOut : top_wp[i].pajak = r.pajak

NamesOf(rows) == {r.nama : r \in Range(rows)}
ReparsedNames(text) == {r[1] : r \in Range(Reparsed(text))}

\* C9 as claimed: for every non-empty filtered view the export, read back,
\* has as many rows as the view and the same set of NAMA_WP values.
C9_ExportRoundTrip ==
    (pc = "done" /\ View # << >>) =>
        /\ tabel.offered
        /\ Len(Reparsed(tabel.csv)) = Len(View)
        /\ ReparsedNames(tabel.csv) = NamesOf(View)

\* Where the export is offered it reads back to the view's row count and
\* names (the files without Label_Risiko).
ExportReadsBack ==
    tabel.offered =>
        /\ Len(Reparsed(tabel.csv)) = Len(View)
        /\ ReparsedNames(tabel.csv) = NamesOf(View)

\* The derived values a single run computes from the dataset d with the
\* selections segs and kats and the sort option by.
FreshView(d, segs, kats) == ApplyFilter(d, segs, kats)
FreshCharts(view) ==
    [n \in 1..6 |-> ChartStatus(view, IF n = 3 THEN ScatterFails(view) ELSE FALSE)]

\* C10: at every point of every run the dataset is the one load_data first
\* returned, the filtered view is the filter of that dataset by the current
\* selections, and a finished run shows the values computed from that view
\* alone, whatever was selected before.
C10_NoStaleness ==
    LET view == FreshView(df0, selected_segmentasi, selected_kategori) IN
    /\ cache.filled => cache.value = df0
    /\ pc # "load" => df = df0
    /\ df_filtered.assigned => View = view
    /\ pc \in {"row1", "row2", "row3", "tabel", "done", "crashed"} =>
          kpi = KpiMetrics(df0, view)
    /\ pc = "done" =>
          /\ chart = FreshCharts(view)
          /\ kategori_omset = (IF Len(view) > 0 THEN KategoriOmset(view, buildStable) ELSE << >>)
          /\ top_wp = (IF Len(view) > 0 THEN TopWp(view, buildStable) ELSE << >>)
          /\ tabel = TabelStage(df0, view, sort_by, buildStable)

\* A finished run whose selections were changed to leave out a category and a
\* segment that the dataset holds, with a record kept and a record left out.
C10_Witness ==
    /\ pc = "done"
    /\ selected_segmentasi # {} /\ selected_segmentasi # all_segmentasi(df0)
    /\ selected_kategori # {} /\ selected_kategori # all_kategori(df0)
    /\ View # << >>
    /\ Len(View) < Len(df0.rows)
    /\ sort_by # "Total_Pajak_12Bulan"

\* C11 as claimed: for a dataset with the six required columns, with or
\* without Label_Risiko, and a non-empty filtered view, the table section
\* ends outside its error branch: the table is shown and the CSV download
\* is offered, and with Label_Risiko present each table row carries the
\* risk status as a seventh column.
C11_TableCompletes ==
    (/\ pc = "done"
     /\ missing_cols(df) = {}
     /\ View # << >>)
    => /\ tabel.status = "ok"
       /\ tabel.shown # << >>
       /\ tabel.offered
       /\ "Label_Risiko" \in df.cols =>
             \A i \in 1..Len(tabel.shown) : Len(tabel.shown[i]) = Len(DisplayHeader) + 1

\* Without Label_Risiko the table section of a non-empty view does end
\* outside its error branch.
TableCompletesWithoutLabel ==
    (/\ pc = "done"
     /\ "Label_Risiko" \notin df.cols
     /\ View # << >>)
    => /\ tabel.status = "ok"
       /\ tabel.shown # << >>
       /\ tabel.offered

====
